---- MODULE Spec2Model ----
(***************************************************************************)
(* Model of the Todoist client (core/todoist.ts): the reminder value       *)
(* parser, the request transport with its retry loop, the reminder batch   *)
(* (sync) follow-up and the task operations.                               *)
(*                                                                         *)
(* Strings whose characters matter (reminder values) are sequences of      *)
(* one-character strings; other strings are TLA+ strings.                  *)
(***************************************************************************)
EXTENDS Integers, Sequences, FiniteSets, TLC

VARIABLES
  cfg,         \* the EffectiveConfig the client was constructed with
  op,          \* the client operation invoked ("none" before the call)
  args,        \* its arguments
  pc,          \* position: "idle", "fetch", "returned", "throw", "done"
  stage,       \* which transport call of the operation is in progress
  req,         \* options of the transport call in progress
  attempt,     \* loop variable of the retry loop
  lastError,   \* lastError of the retry loop
  nfetch,      \* fetch attempts made by the transport call in progress
  mixedOutcomes, \* whether those attempts produced two different outcomes
  lastOutcome, \* what fetch produced at its latest attempt
  ret,         \* value the last transport call returned
  thrown,      \* the exception in flight
  task,        \* addTask: the task returned by the creation POST
  commands,    \* addTaskReminders: the reminder commands built
  uuidNext,    \* randomUUID: number of identifiers handed out so far
  result,      \* settled outcome of the operation
  callLog,     \* every requestWithBody invocation, in order
  fetchLog,    \* every fetch attempt, in order
  tokenChecks, \* how many times the apiToken check was evaluated
  server,      \* the remote side: existing tasks, next task number
  pvalue,      \* the argument of the function checked on its own
  presult,     \* the settled outcome of that function
  processExitCode, \* process.exitCode (0 while unset)
  env,         \* the TODOIST_* environment variables
  stored,      \* the config file
  argv,        \* the command line and standard input of the latest run
  effective,   \* the config the latest command built its client with
  checks,      \* the checks doctor reported
  origin       \* where the stored value of each key was read from

vars == <<cfg, op, args, pc, stage, req, attempt, lastError, nfetch,
          mixedOutcomes, lastOutcome, ret,
          thrown, task, commands, uuidNext, result, callLog, fetchLog,
          tokenChecks, server, pvalue, presult, processExitCode, env, stored,
          argv,
          effective, checks, origin>>

cliVars == <<env, stored, argv, effective, checks, origin>>

clientVars == <<cfg, op, args, pc, stage, req, attempt, lastError, nfetch,
                mixedOutcomes, lastOutcome,
                ret, thrown, task, commands, uuidNext, result, callLog,
                fetchLog, tokenChecks, server>>

----------------------------------------------------------------------------
(* Bounds *)

MaxRetries == 2
MaxReminders == 2
MaxLen == 3
MaxInputs == 2

----------------------------------------------------------------------------
(* Values *)

None == [t |-> "none"]
JUndefined == [t |-> "undefined"]
JNull == [t |-> "null"]

NoError == [cls |-> "none", tag |-> "", detail |-> <<>>, exitCode |-> 0]

\* new CliError(message, exitCode = 1)
CliError(tag, detail, exitCode) ==
  [cls |-> "CliError", tag |-> tag, detail |-> detail, exitCode |-> exitCode]

\* an Error that is not a CliError (TypeError, SyntaxError, DOMException)
PlainError(cls, detail) ==
  [cls |-> cls, tag |-> "", detail |-> detail, exitCode |-> 0]

DefaultExitCode == 1

Ok(v) == [kind |-> "ok", value |-> v, error |-> NoError]
Threw(e) == [kind |-> "error", value |-> None, error |-> e]
Pending == [kind |-> "pending", value |-> None, error |-> NoError]

----------------------------------------------------------------------------
(* parseReminderValue *)

DigitChars == {"0", "1", "2", "3", "4", "5", "6", "7", "8", "9"}

DigitVal(c) ==
  CASE c = "0" -> 0 [] c = "1" -> 1 [] c = "2" -> 2 [] c = "3" -> 3
    [] c = "4" -> 4 [] c = "5" -> 5 [] c = "6" -> 6 [] c = "7" -> 7
    [] c = "8" -> 8 [] c = "9" -> 9

\* /^\d+$/.test(value)
IsDigits(value) ==
  /\ Len(value) > 0
  /\ \A i \in 1..Len(value) : value[i] \in DigitChars

\* s without its leading occurrences of the character c
DropLeading(s, c) ==
  LET rest == {i \in 1..Len(s) : s[i] # c} IN
  IF rest = {} THEN <<>>
  ELSE SubSeq(s, CHOOSE i \in rest : \A j \in rest : i <= j, Len(s))

StripZeros(s) == DropLeading(s, "0")

RECURSIVE DecimalValue(_)
DecimalValue(s) ==
  IF Len(s) = 0 THEN 0
  ELSE 10 * DecimalValue(SubSeq(s, 1, Len(s) - 1)) + DigitVal(s[Len(s)])

\* The largest double is about 1.8 * 10^308: a decimal integer of more than
\* 309 significant digits converts to Infinity.
MaxFiniteDigits == 309

\* Number(value) for a digits-only value.  Exact for the values drawn here
\* (fewer than 10 significant digits, or more than MaxFiniteDigits).
NumberOf(value) ==
  LET s == StripZeros(value) IN
  IF Len(s) > MaxFiniteDigits
    THEN [finite |-> FALSE, n |-> 0]
    ELSE [finite |-> TRUE, n |-> DecimalValue(s)]

InvalidMinutes_AcceptsZero(m) == ~m.finite \/ m.n < 0

\* !Number.isFinite(minuteOffset) || minuteOffset <= 0
InvalidMinutes(m) == ~m.finite \/ m.n <= 0

InvalidReminderError(value) ==
  CliError("Invalid reminder minutes value: ", value, 2)

RelativeArgs(n) ==
  [item_id |-> "", type |-> "relative", minute_offset |-> n]

TrimStart(s) == DropLeading(s, " ")

AbsoluteArgs_Trimmed(value) ==
  [item_id |-> "", type |-> "absolute", due |-> [date |-> TrimStart(value)]]

AbsoluteArgs(value) ==
  [item_id |-> "", type |-> "absolute", due |-> [date |-> value]]

parseReminderValue(value) ==
  IF IsDigits(value)
    THEN LET minuteOffset == NumberOf(value) IN
         IF InvalidMinutes(minuteOffset)
           THEN Threw(InvalidReminderError(value))
           ELSE Ok(RelativeArgs(minuteOffset.n))
    ELSE Ok(AbsoluteArgs(value))

----------------------------------------------------------------------------
(* Inputs of the parser specification *)

ParseAlphabet == {"0", "3", "5", "-", ".", " ", "t"}

StringsUpTo(alphabet, n) == UNION {[1..k -> alphabet] : k \in 0..n}

\* digit strings too long to convert to a finite double
HugeOne == [i \in 1..(MaxFiniteDigits + 1) |-> IF i = 1 THEN "1" ELSE "0"]
HugeZero == [i \in 1..(MaxFiniteDigits + 1) |-> "0"]
HugePadded == [i \in 1..(MaxFiniteDigits + 1) |->
                 IF i = MaxFiniteDigits + 1 THEN "5" ELSE "0"]

ParseInputs ==
  StringsUpTo(ParseAlphabet, MaxLen) \cup {HugeOne, HugeZero, HugePadded}

----------------------------------------------------------------------------
(* Configuration and arguments *)

DefaultEndpoint == "https://api.todoist.com"
BadEndpoint == "api.todoist.com"
DefaultTimeout == 15000

\* new URL(x) throws a TypeError unless x is an absolute URL
IsUrl(x) == x = DefaultEndpoint

\* apiToken "" stands for an unset (falsy) token
Configs ==
  [endpoint : {DefaultEndpoint, BadEndpoint}, apiToken : {"", "tok"},
   timeout : {DefaultTimeout}, retries : 0..MaxRetries]

ReminderValues == {<<"3", "0">>, <<"0">>, <<"t">>}

ReminderLists == StringsUpTo(ReminderValues, MaxReminders)

ExistingTaskId == "7"

\* ids the server assigns to created tasks: "42", "43", ...
TaskId(n) == ToString(41 + n)

NoArgs == [taskId |-> "", hasReminders |-> FALSE, reminders |-> <<>>,
           projectId |-> "", filter |-> ""]

----------------------------------------------------------------------------
(* JSON values a 2xx response can carry *)

BadJson == [t |-> "badjson"]
TaskJson(id) == [t |-> "task", id |-> id]
ArrayJson(items) == [t |-> "array", items |-> items]
ListObjectJson(has, items) ==
  [t |-> "object", has_results |-> has, results |-> items]
SyncJson(has, status) ==
  [t |-> "object", has_sync_status |-> has, sync_status |-> status]

StatusTokens == {"ok", "fail"}

\* sync_status maps: any subset of the submitted uuids to a status token
StatusMaps(uuids) == UNION {[s -> StatusTokens] : s \in SUBSET uuids}

CommandUuids(cmds) == {cmds[i].uuid : i \in 1..Len(cmds)}

RECURSIVE SetToSeq(_)
SetToSeq(S) ==
  IF S = {} THEN <<>>
  ELSE LET x == CHOOSE y \in S : TRUE IN <<x>> \o SetToSeq(S \ {x})

ServerTaskList(srv) ==
  LET ids == SetToSeq(srv.tasks) IN [i \in 1..Len(ids) |-> TaskJson(ids[i])]

TasksPath == "/api/v1/tasks"
SyncPath == "/api/v1/sync"
ProjectsPath == "/api/v1/projects"
TaskPath(taskId) == "/api/v1/tasks/" \o taskId
ClosePath(taskId) == "/api/v1/tasks/" \o taskId \o "/close"

IsCreate(r) == r.method = "POST" /\ r.path = TasksPath

ResponseBodies(r, srv) ==
  IF r.path = TasksPath /\ r.method = "GET"
    THEN {ArrayJson(ServerTaskList(srv)),
          ListObjectJson(TRUE, ServerTaskList(srv)),
          ListObjectJson(FALSE, <<>>), JNull}
  ELSE IF IsCreate(r)
    THEN {TaskJson(TaskId(srv.next)), JNull}
  ELSE IF r.method = "POST" /\ r.path = TaskPath(ExistingTaskId)
    THEN {TaskJson(ExistingTaskId)}
  ELSE IF r.path = SyncPath
    THEN {SyncJson(TRUE, m) : m \in StatusMaps(CommandUuids(r.body.commands))}
           \cup {SyncJson(FALSE, <<>>), JNull}
  ELSE {ArrayJson(<<>>)}

Response(status, statusText, text, json) ==
  [kind |-> "response", status |-> status, statusText |-> statusText,
   text |-> text, json |-> json]

Rejection(kind, message) ==
  [kind |-> kind, status |-> 0, statusText |-> "", text |-> message,
   json |-> None]

FailureOutcomes ==
  {Rejection("network", "fetch failed"),
   Rejection("timeout", "The operation was aborted."),
   Response(404, "Not Found", "", None),
   Response(500, "Internal Server Error", "boom", None)}

\* everything one fetch attempt can produce
Outcomes(r, srv) ==
  FailureOutcomes
    \cup {Response(204, "No Content", "", None)}
    \cup {Response(200, "OK", "body", b) : b \in ResponseBodies(r, srv) \cup {BadJson}}

\* response.ok
ResponseOk(o) == o.kind = "response" /\ o.status >= 200 /\ o.status <= 299

\* the server carries out a request it answers with a 2xx status
ServerAfter(srv, r, o) ==
  IF ~ResponseOk(o) THEN srv
  ELSE IF IsCreate(r)
    THEN [tasks |-> srv.tasks \cup {TaskId(srv.next)}, next |-> srv.next + 1]
  ELSE IF r.method = "DELETE"
    THEN [srv EXCEPT !.tasks = {id \in srv.tasks : TaskPath(id) # r.path}]
  ELSE srv

----------------------------------------------------------------------------
(* Request transport: request / requestWithBody *)

\* query parameters with a falsy value are left out of the URL
Url(path, query) ==
  [path |-> path,
   query |-> [k \in {q \in DOMAIN query : query[q] # ""} |-> query[k]]]

\* request(): method defaults to GET; a body is sent as JSON
RequestOptions(method, path, query, body) ==
  [method |-> method, path |-> path, query |-> query, body |-> body,
   contentType |-> IF body = None THEN "" ELSE "application/json"]

\* sync(): the commands go form-encoded in one field named commands
SyncOptions(cmds) ==
  [method |-> "POST", path |-> SyncPath, query |-> <<>>,
   body |-> [commands |-> cmds],
   contentType |-> "application/x-www-form-urlencoded"]

\* the init argument of fetch
FetchInit(r) ==
  [method |-> r.method, url |-> Url(r.path, r.query), body |-> r.body,
   contentType |-> r.contentType, authorization |-> cfg.apiToken]

TokenMissing_Never == FALSE

\* !this.cfg.apiToken
TokenMissing == cfg.apiToken = ""

LoopContinues_OffByOne(a) == a < cfg.retries

\* attempt <= this.cfg.retries
LoopContinues(a) == a <= cfg.retries

BreaksLoop_OnClientError(error, a) ==
  a = cfg.retries \/ (error.cls = "CliError" /\ error.detail[1] = "404")

\* the catch block: if (attempt === this.cfg.retries) break, whatever the error
BreaksLoop(error, a) == a = cfg.retries

AuthMissingError ==
  CliError("Todoist API token not configured. Set TODOIST_API_TOKEN or run: todoist cfg set apiToken -",
           <<>>, 1)

InvalidUrlError == PlainError("TypeError", <<"Invalid URL">>)

\* `Todoist API ${response.status}: ${detail || response.statusText}`
HttpError(o) ==
  CliError("Todoist API ",
           <<ToString(o.status), IF o.text # "" THEN o.text ELSE o.statusText>>,
           DefaultExitCode)

\* the body of the try block after fetch settles
HandleResponse(o) ==
  IF o.kind # "response"
    THEN Threw(PlainError(IF o.kind = "timeout" THEN "AbortError" ELSE "TypeError",
                          <<o.text>>))
  ELSE IF ~ResponseOk(o) THEN Threw(HttpError(o))
  ELSE IF o.status = 204 THEN Ok(JUndefined)
  ELSE IF o.json = BadJson
    THEN Threw(PlainError("SyntaxError", <<"JSON Parse error">>))
  ELSE Ok(o.json)

CatchError_KeepFirst(previous, error) ==
  IF previous = NoError THEN error ELSE previous

\* lastError = error
CatchError(previous, error) == error

\* the two throw statements after the loop
AfterLoop(e) ==
  IF e.cls = "CliError" THEN e
  ELSE CliError("", IF e.cls # "none" THEN e.detail ELSE <<"Request failed">>, 1)

Throw(e) == pc' = "throw" /\ thrown' = e

Return(v) == pc' = "done" /\ result' = Ok(v) /\ UNCHANGED thrown

\* requestWithBody up to the first fetch
RequestWithBody(options, st) ==
  /\ req' = options
  /\ stage' = st
  /\ callLog' = Append(callLog, options)
  /\ nfetch' = 0
  /\ mixedOutcomes' = FALSE
  /\ lastOutcome' = None
  /\ UNCHANGED result
  /\ IF ~IsUrl(cfg.endpoint)
       THEN /\ Throw(InvalidUrlError)
            /\ UNCHANGED <<attempt, lastError, tokenChecks>>
       ELSE /\ tokenChecks' = tokenChecks + 1
            /\ IF TokenMissing
                 THEN /\ Throw(AuthMissingError)
                      /\ UNCHANGED <<attempt, lastError>>
                 ELSE /\ lastError' = NoError
                      /\ attempt' = 0
                      /\ IF LoopContinues(0)
                           THEN pc' = "fetch" /\ UNCHANGED thrown
                           ELSE Throw(AfterLoop(NoError))

transportVars == <<req, stage, callLog, nfetch, mixedOutcomes, lastOutcome, attempt,
                   lastError, tokenChecks>>

\* one iteration of the retry loop: fetch, then the try / catch around it
Attempt ==
  /\ pc = "fetch"
  /\ \E o \in Outcomes(req, server) :
       LET handled == HandleResponse(o) IN
       /\ fetchLog' = Append(fetchLog, FetchInit(req))
       /\ nfetch' = nfetch + 1
       /\ mixedOutcomes' = (nfetch > 0 /\ (mixedOutcomes \/ lastOutcome # o))
       /\ lastOutcome' = o
       /\ server' = ServerAfter(server, req, o)
       /\ IF handled.kind = "ok"
            THEN /\ ret' = handled.value
                 /\ pc' = "returned"
                 /\ UNCHANGED <<attempt, lastError, thrown>>
            ELSE LET caught == CatchError(lastError, handled.error) IN
                 /\ lastError' = caught
                 /\ UNCHANGED ret
                 /\ IF BreaksLoop(handled.error, attempt)
                      THEN Throw(AfterLoop(caught)) /\ UNCHANGED attempt
                      ELSE /\ attempt' = attempt + 1
                           /\ IF LoopContinues(attempt + 1)
                                THEN pc' = "fetch" /\ UNCHANGED thrown
                                ELSE Throw(AfterLoop(caught))
  /\ UNCHANGED <<cfg, op, args, stage, req, task, commands, uuidNext, result,
                 callLog, tokenChecks, pvalue, presult, processExitCode,
                 cliVars>>

----------------------------------------------------------------------------
(* addTaskReminders: the commands *)

\* randomUUID(): the k-th identifier handed out
Uuid(k) == k

ReminderCommand_NoItem(parsed, taskId, k) ==
  [type |-> "reminder_add", uuid |-> Uuid(k + 1), temp_id |-> Uuid(k + 2),
   args |-> parsed]

ReminderCommand(parsed, taskId, k) ==
  [type |-> "reminder_add", uuid |-> Uuid(k + 1), temp_id |-> Uuid(k + 2),
   args |-> [parsed EXCEPT !.item_id = taskId]]

\* reminders.map(...): values are parsed in order, two identifiers are drawn
\* per parsed value, and the first value that fails to parse ends the map
RECURSIVE MapReminders(_, _, _, _)
MapReminders(taskId, reminders, k, acc) ==
  IF reminders = <<>> THEN [kind |-> "ok", value |-> acc, error |-> NoError, uuidNext |-> k]
  ELSE LET parsed == parseReminderValue(Head(reminders)) IN
       IF parsed.kind = "error"
         THEN [kind |-> "error", value |-> <<>>, error |-> parsed.error, uuidNext |-> k]
         ELSE MapReminders(taskId, Tail(reminders), k + 2,
                           Append(acc, ReminderCommand(parsed.value, taskId, k)))

BuildCommands_FirstOnly(taskId, reminders, k) ==
  IF reminders = <<>> THEN MapReminders(taskId, reminders, k, <<>>)
  ELSE LET first == MapReminders(taskId, <<Head(reminders)>>, k, <<>>) IN
       IF first.kind = "error" THEN first
       ELSE [first EXCEPT
               !.value = [i \in 1..Len(reminders) |->
                            [first.value[1] EXCEPT !.uuid = Uuid(k + 2 * i - 1),
                                                   !.temp_id = Uuid(k + 2 * i)]],
               !.uuidNext = k + 2 * Len(reminders)]

BuildCommands(taskId, reminders, k) == MapReminders(taskId, reminders, k, <<>>)

\* syncStatus[command.uuid], undefined ("") when the key is missing
StatusOf(syncStatus, uuid) ==
  IF uuid \in DOMAIN syncStatus THEN syncStatus[uuid] ELSE ""

FailingCommands(cmds, syncStatus) ==
  {i \in 1..Len(cmds) : StatusOf(syncStatus, cmds[i].uuid) # "ok"}

Min(S) == CHOOSE x \in S : \A y \in S : x <= y

\* the for loop throws at the first command whose status is not "ok"
FirstFailing(cmds, syncStatus) == Min(FailingCommands(cmds, syncStatus))

\* `Failed to add reminder: ${String(syncStatus[command.uuid] ?? "unknown error")}`
ReminderFailedError(status) ==
  CliError("Failed to add reminder: ",
           <<IF status = "" THEN "unknown error" ELSE status>>, 1)

UndefinedPropertyError(what) == PlainError("TypeError", <<what>>)

\* addTaskReminders up to the await of sync
AddTaskReminders(taskId, reminders) ==
  LET built == BuildCommands(taskId, reminders, uuidNext) IN
  /\ uuidNext' = built.uuidNext
  /\ IF built.kind = "error"
       THEN /\ Throw(built.error)
            /\ UNCHANGED <<commands, result>>
            /\ UNCHANGED transportVars
       ELSE /\ commands' = built.value
            /\ RequestWithBody(SyncOptions(built.value), "sync")

----------------------------------------------------------------------------
(* Task operations *)

Invoke(name, a) ==
  /\ pc = "idle"
  /\ op' = name
  /\ args' = a
  /\ UNCHANGED <<cfg, ret, task, fetchLog, server, pvalue, presult, processExitCode,
                 cliVars>>

ListTasks_Post ==
  \E projectId \in {"", "p1"}, filter \in {"", "today"} :
    /\ Invoke("listTasks", [NoArgs EXCEPT !.projectId = projectId, !.filter = filter])
    /\ RequestWithBody(RequestOptions("POST", TasksPath,
                                      [project_id |-> projectId, filter |-> filter],
                                      None), "list")
    /\ UNCHANGED <<commands, uuidNext>>
ListTasks ==
  \E projectId \in {"", "p1"}, filter \in {"", "today"} :
    /\ Invoke("listTasks", [NoArgs EXCEPT !.projectId = projectId, !.filter = filter])
    /\ RequestWithBody(RequestOptions("GET", TasksPath,
                                      [project_id |-> projectId, filter |-> filter],
                                      None), "list")
    /\ UNCHANGED <<commands, uuidNext>>

\* Array.isArray(response) ? response : response.results ?? []
ListTasksReturned ==
  /\ pc = "returned" /\ stage = "list"
  /\ IF ret.t = "array" THEN Return(ret.items)
     ELSE IF ret.t \in {"undefined", "null"}
       THEN Throw(UndefinedPropertyError("response.results")) /\ UNCHANGED result
     ELSE Return(IF ret.has_results THEN ret.results ELSE <<>>)
  /\ UNCHANGED <<cfg, op, args, ret, task, commands, uuidNext, fetchLog, server,
                 pvalue, presult, processExitCode,
                 cliVars>>
  /\ UNCHANGED transportVars

\* undefined fields are left out by JSON.stringify
TaskBody(content) == [content |-> content]

HasReminders_MoreThanOne(a) == a.hasReminders /\ Len(a.reminders) > 1

\* input.reminders && input.reminders.length > 0
HasReminders(a) == a.hasReminders /\ Len(a.reminders) > 0

AddTask_ParseFirst ==
  \E has \in BOOLEAN, reminders \in ReminderLists :
    /\ has \/ reminders = <<>>
    /\ Invoke("addTask", [NoArgs EXCEPT !.hasReminders = has, !.reminders = reminders])
    /\ IF BuildCommands("", reminders, uuidNext).kind = "error"
         THEN /\ Throw(BuildCommands("", reminders, uuidNext).error)
              /\ UNCHANGED <<commands, uuidNext, result>>
              /\ UNCHANGED transportVars
         ELSE /\ RequestWithBody(RequestOptions("POST", TasksPath, <<>>,
                                                TaskBody("Buy milk")), "create")
              /\ UNCHANGED <<commands, uuidNext>>

AddTask ==
  \E has \in BOOLEAN, reminders \in ReminderLists :
    /\ has \/ reminders = <<>>
    /\ Invoke("addTask", [NoArgs EXCEPT !.hasReminders = has, !.reminders = reminders])
    /\ RequestWithBody(RequestOptions("POST", TasksPath, <<>>, TaskBody("Buy milk")),
                       "create")
    /\ UNCHANGED <<commands, uuidNext>>

\* addTask after the creation POST has returned
AddTaskCreated ==
  /\ pc = "returned" /\ stage = "create"
  /\ task' = ret
  /\ IF HasReminders(args)
       THEN IF ret.t \in {"undefined", "null"}
              THEN /\ Throw(UndefinedPropertyError("task.id"))
                   /\ UNCHANGED <<commands, uuidNext, result>>
                   /\ UNCHANGED transportVars
              ELSE AddTaskReminders(ret.id, args.reminders)
       ELSE /\ Return(ret)
            /\ UNCHANGED <<commands, uuidNext>>
            /\ UNCHANGED transportVars
  /\ UNCHANGED <<cfg, op, args, ret, fetchLog, server, pvalue, presult, processExitCode,
                 cliVars>>

AddTaskRemindersCall ==
  \E reminders \in ReminderLists :
    /\ Invoke("addTaskReminders",
              [NoArgs EXCEPT !.taskId = ExistingTaskId, !.hasReminders = TRUE,
                             !.reminders = reminders])
    /\ AddTaskReminders(ExistingTaskId, reminders)

\* addTaskReminders after sync has returned, and the return of addTask
SyncReturned ==
  /\ pc = "returned" /\ stage = "sync"
  /\ IF ret.t \in {"undefined", "null"}
       THEN Throw(UndefinedPropertyError("response.sync_status")) /\ UNCHANGED result
     ELSE LET syncStatus == IF ret.has_sync_status THEN ret.sync_status ELSE <<>> IN
          IF FailingCommands(commands, syncStatus) # {}
            THEN /\ Throw(ReminderFailedError(
                       StatusOf(syncStatus,
                                commands[FirstFailing(commands, syncStatus)].uuid)))
                 /\ UNCHANGED result
            ELSE Return(IF op \in {"addTask", "updateTask"} THEN task ELSE JUndefined)
  /\ UNCHANGED <<cfg, op, args, ret, task, commands, uuidNext, fetchLog, server,
                 pvalue, presult, processExitCode,
                 cliVars>>
  /\ UNCHANGED transportVars

\* the fields an update can carry; "" and 0 stand for an absent field
UpdateFields ==
  {[content |-> "Buy bread", dueString |-> "", priority |-> 0],
   [content |-> "", dueString |-> "tomorrow", priority |-> 4]}

\* absent fields are left out of the payload
UpdateBody(fields) ==
  LET all == [content |-> fields.content, due_string |-> fields.dueString,
              priority |-> fields.priority]
      present == (IF fields.content # "" THEN {"content"} ELSE {})
                   \cup (IF fields.dueString # "" THEN {"due_string"} ELSE {})
                   \cup (IF fields.priority # 0 THEN {"priority"} ELSE {})
  IN [k \in present |-> all[k]]

UpdateTask ==
  \E fields \in UpdateFields, has \in BOOLEAN, reminders \in ReminderLists :
    /\ has \/ reminders = <<>>
    /\ Invoke("updateTask",
              [NoArgs EXCEPT !.taskId = ExistingTaskId, !.hasReminders = has,
                             !.reminders = reminders])
    /\ RequestWithBody(RequestOptions("POST", TaskPath(ExistingTaskId), <<>>,
                                      UpdateBody(fields)), "update")
    /\ UNCHANGED <<commands, uuidNext>>

\* updateTask after the update POST has returned
UpdateTaskPosted ==
  /\ pc = "returned" /\ stage = "update"
  /\ task' = ret
  /\ IF HasReminders(args)
       THEN AddTaskReminders(args.taskId, args.reminders)
       ELSE /\ Return(ret)
            /\ UNCHANGED <<commands, uuidNext>>
            /\ UNCHANGED transportVars
  /\ UNCHANGED <<cfg, op, args, ret, fetchLog, server, pvalue, presult, processExitCode,
                 cliVars>>

CloseTask ==
  /\ Invoke("closeTask", [NoArgs EXCEPT !.taskId = ExistingTaskId])
  /\ RequestWithBody(RequestOptions("POST", ClosePath(ExistingTaskId), <<>>, None),
                     "close")
  /\ UNCHANGED <<commands, uuidNext>>

DeleteTask ==
  /\ Invoke("deleteTask", [NoArgs EXCEPT !.taskId = ExistingTaskId])
  /\ RequestWithBody(RequestOptions("DELETE", TaskPath(ExistingTaskId), <<>>, None),
                     "delete")
  /\ UNCHANGED <<commands, uuidNext>>

CheckReachability ==
  /\ Invoke("checkReachability", NoArgs)
  /\ RequestWithBody(RequestOptions("GET", ProjectsPath, <<>>, None), "reach")
  /\ UNCHANGED <<commands, uuidNext>>

\* closeTask, deleteTask and checkReachability drop what the call returned
VoidReturned ==
  /\ pc = "returned" /\ stage \in {"close", "delete", "reach"}
  /\ Return(JUndefined)
  /\ UNCHANGED <<cfg, op, args, ret, task, commands, uuidNext, fetchLog, server,
                 pvalue, presult, processExitCode,
                 cliVars>>
  /\ UNCHANGED transportVars

Propagate_Compensating ==
  /\ pc = "throw"
  /\ pc' = "done"
  /\ result' = Threw(thrown)
  /\ IF op = "addTask" /\ task # None /\ task.t = "task"
       THEN /\ fetchLog' = Append(fetchLog,
                 FetchInit(RequestOptions("DELETE", TaskPath(task.id), <<>>, None)))
            /\ server' = [server EXCEPT !.tasks = @ \ {task.id}]
       ELSE UNCHANGED <<fetchLog, server>>
  /\ UNCHANGED <<cfg, op, args, ret, thrown, task, commands, uuidNext, pvalue, presult, processExitCode,
                 cliVars>>
  /\ UNCHANGED transportVars

\* no operation catches: what is thrown rejects the operation's promise
Propagate ==
  /\ pc = "throw"
  /\ pc' = "done"
  /\ result' = Threw(thrown)
  /\ UNCHANGED <<cfg, op, args, ret, thrown, task, commands, uuidNext, fetchLog,
                 server, pvalue, presult, processExitCode,
                 cliVars>>
  /\ UNCHANGED transportVars

----------------------------------------------------------------------------
(* Strings and numbers of the command line and of the config file *)

\* a string value and a number value, as JSON and the config schema tell
\* them apart
Str(chars) == [t |-> "str", s |-> chars]
Num(neg, whole, frac) == [t |-> "num", neg |-> neg, whole |-> whole, frac |-> frac]
NaN == [t |-> "nan"]
IntNum(k) == Num(FALSE, k, <<>>)

\* s without its trailing occurrences of the character c
DropTrailing(s, c) ==
  LET rest == {i \in 1..Len(s) : s[i] # c} IN
  IF rest = {} THEN <<>>
  ELSE SubSeq(s, 1, CHOOSE i \in rest : \A j \in rest : j <= i)

\* String.prototype.trim, for the blank the inputs are drawn with
Trim(s) == DropTrailing(DropLeading(s, " "), " ")

\* Number(text) for decimal literals: blank text is 0, an optional sign, then
\* digits with at most one point; anything else is NaN.  (Exponents, hex
\* literals and Infinity need characters the inputs are not drawn with.)
ToNumber(text) ==
  LET t == Trim(text)
      signed == t # <<>> /\ t[1] \in {"-", "+"}
      body == IF signed THEN Tail(t) ELSE t
      dots == {i \in 1..Len(body) : body[i] = "."}
      p == IF dots = {} THEN Len(body) + 1 ELSE CHOOSE i \in dots : TRUE
      whole == SubSeq(body, 1, p - 1)
      frac == SubSeq(body, p + 1, Len(body))
      digits(s) == \A i \in 1..Len(s) : s[i] \in DigitChars
      value == DecimalValue(StripZeros(whole))
      fraction == DropTrailing(frac, "0")
  IN
  IF t = <<>> THEN IntNum(0)
  ELSE IF Cardinality(dots) > 1 \/ ~digits(whole) \/ ~digits(frac)
            \/ (whole = <<>> /\ frac = <<>>)
    THEN NaN
  ELSE Num(t[1] = "-" /\ (value > 0 \/ fraction # <<>>), value, fraction)

IsInteger(x) == x.t = "num" /\ x.frac = <<>>
IsPositive(x) == x.t = "num" /\ ~x.neg /\ (x.whole > 0 \/ x.frac # <<>>)
AtLeast(x, k) == x.t = "num" /\ ~x.neg /\ x.whole >= k
AtMost(x, k) == x.t = "num" /\ (x.neg \/ x.whole < k \/ (x.whole = k /\ x.frac = <<>>))

\* toLowerCase for the capital letters the keys are written with
LowerChar(c) ==
  CASE c = "A" -> "a" [] c = "K" -> "k" [] c = "S" -> "s" [] c = "T" -> "t"
    [] OTHER -> c

LowerCase(s) == [i \in 1..Len(s) |-> LowerChar(s[i])]

\* s.includes(part)
Contains(s, part) ==
  \E i \in 0..(Len(s) - Len(part)) : SubSeq(s, i + 1, i + Len(part)) = part

\* s.indexOf(c), counted from 0; -1 when c does not occur
IndexOf(s, c) ==
  LET at == {i \in 1..Len(s) : s[i] = c} IN
  IF at = {} THEN -1 ELSE (CHOOSE i \in at : \A j \in at : i <= j) - 1

\* new URL(text) succeeds: a scheme of letters, then ":", and for the
\* schemes that need a host something after the slashes
IsUrlString(text) ==
  LET p == IndexOf(text, ":")
      letters ==
        {"a", "b", "c", "d", "e", "f", "g", "h", "i", "j", "k", "l", "m", "n",
         "o", "p", "q", "r", "s", "t", "u", "v", "w", "x", "y", "z"}
  IN
  /\ p >= 1
  /\ \A i \in 1..p : LowerChar(text[i]) \in letters
  /\ LowerCase(SubSeq(text, 1, p)) \in {<<"h", "t", "t", "p">>, <<"h", "t", "t", "p", "s">>}
       => DropLeading(SubSeq(text, p + 2, Len(text)), "/") # <<>>

----------------------------------------------------------------------------
(* Configuration: schema, stored file, environment, effective config *)

Keys == {"endpoint", "apiToken", "timeout", "retries"}

KeyChars(k) ==
  CASE k = "endpoint" -> <<"e", "n", "d", "p", "o", "i", "n", "t">>
    [] k = "apiToken" -> <<"a", "p", "i", "T", "o", "k", "e", "n">>
    [] k = "timeout" -> <<"t", "i", "m", "e", "o", "u", "t">>
    [] k = "retries" -> <<"r", "e", "t", "r", "i", "e", "s">>

\* { ...f, ...g }
Merge(f, g) ==
  [k \in DOMAIN f \cup DOMAIN g |-> IF k \in DOMAIN g THEN g[k] ELSE f[k]]

\* the zod schema, field by field; every field is optional
ValidField(k, v) ==
  CASE k = "endpoint" -> v.t = "str" /\ IsUrlString(v.s)
    [] k = "apiToken" -> v.t = "str" /\ Len(v.s) >= 1
    [] k = "timeout" -> IsInteger(v) /\ IsPositive(v)
    [] k = "retries" -> IsInteger(v) /\ AtLeast(v, 0) /\ AtMost(v, 10)

\* schema.safeParse(config).success
SchemaOk(config) ==
  \A k \in DOMAIN config \cap Keys : ValidField(k, config[k])

\* schema.safeParse(config).data: keys the schema does not name are dropped
SchemaData(config) == [k \in DOMAIN config \cap Keys |-> config[k]]

\* endpoint "https://api.todoist.com", timeout 15000, retries 2
DEFAULTS ==
  [endpoint |-> Str(<<"h", "t", "t", "p", "s", ":", "/", "/", "a", "p", "i", ".",
                      "t", "o", "d", "o", "i", "s", "t", ".", "c", "o", "m">>),
   timeout |-> IntNum(DefaultTimeout),
   retries |-> IntNum(2)]

\* the config file: absent, or the JSON object it holds
NoFile == [t |-> "nofile"]
File(config) == [t |-> "file", config |-> config]

\* loadStoredConfig: {} when there is no file, the validated content otherwise
loadStoredConfig(file) ==
  IF file = NoFile THEN Ok(<<>>)
  ELSE IF ~SchemaOk(file.config)
    THEN Threw(CliError("Config validation failed: ", <<>>, DefaultExitCode))
  ELSE Ok(SchemaData(file.config))

\* resolveEffectiveConfig: an environment variable that is set and not empty
\* wins over the stored value, which wins over the default; the merged
\* config is validated against the schema
resolveEffectiveConfig(storedConfig, environment) ==
  LET pick(k, fromEnv) ==
        IF fromEnv # None THEN (k :> fromEnv)
        ELSE IF k \in DOMAIN storedConfig THEN (k :> storedConfig[k])
        ELSE IF k \in DOMAIN DEFAULTS THEN (k :> DEFAULTS[k]) ELSE <<>>
      text(v) == IF environment[v] # <<>> THEN Str(environment[v]) ELSE None
      number(v) == IF environment[v] # <<>> THEN ToNumber(environment[v]) ELSE None
      merged == Merge(Merge(pick("endpoint", text("TODOIST_ENDPOINT")),
                            pick("apiToken", text("TODOIST_API_TOKEN"))),
                      Merge(pick("timeout", number("TODOIST_TIMEOUT")),
                            pick("retries", number("TODOIST_RETRIES"))))
  IN
  IF ~SchemaOk(merged)
    THEN Threw(CliError("Effective config is invalid: ", <<>>, DefaultExitCode))
    ELSE Ok(SchemaData(merged))

\* applyOverrides: a flag that is given and not empty replaces the resolved
\* value, numbers by Number(flag), with no validation
applyOverrides(config, opts) ==
  LET given(f) == f \in DOMAIN opts /\ opts[f] # <<>> IN
  Merge(config,
        [endpoint |-> IF given("endpoint") THEN Str(opts.endpoint) ELSE config.endpoint,
         timeout |-> IF given("timeout") THEN ToNumber(opts.timeout) ELSE config.timeout,
         retries |-> IF given("retries") THEN ToNumber(opts.retries) ELSE config.retries])

BadAssignment_AllowsEmptyValue(input) == IndexOf(input, "=") <= 0

\* idx <= 0 || idx === input.length - 1
BadAssignment(input) ==
  IndexOf(input, "=") <= 0 \/ IndexOf(input, "=") = Len(input) - 1

RECURSIVE AssignAll(_, _)
AssignAll(inputs, acc) ==
  IF inputs = <<>> THEN Ok(acc)
  ELSE LET input == Head(inputs)
           idx == IndexOf(input, "=")
           key == SubSeq(input, 1, idx)
           value == SubSeq(input, idx + 2, Len(input))
           \* result[key] = value: a key that is already there keeps its place
           put == IF \E i \in 1..Len(acc) : acc[i].key = key
                    THEN [i \in 1..Len(acc) |->
                            IF acc[i].key = key THEN [key |-> key, value |-> value]
                            ELSE acc[i]]
                    ELSE Append(acc, [key |-> key, value |-> value])
       IN
       IF BadAssignment(input)
         THEN Threw(CliError("Expected key=value format, got: ", input, 2))
         ELSE AssignAll(Tail(inputs), put)

\* parseSetAssignments: the entries of the record it returns, in the order
\* the keys were first assigned
parseSetAssignments(inputs) == AssignAll(inputs, <<>>)

\* const allowedKeys = new Set(["endpoint", "apiToken", "timeout", "retries"])
allowedKeys == {KeyChars(k) : k \in Keys}

\* the key an allowed argument names
KeyOf(chars) == CHOOSE k \in Keys : KeyChars(k) = chars

isSecretKey_Never(key) == FALSE

\* isSecretKey: /token|secret|api[_-]?key/i.test(key)
isSecretKey(key) ==
  LET low == LowerCase(key) IN
  \/ Contains(low, <<"t", "o", "k", "e", "n">>)
  \/ Contains(low, <<"s", "e", "c", "r", "e", "t">>)
  \/ Contains(low, <<"a", "p", "i", "k", "e", "y">>)
  \/ Contains(low, <<"a", "p", "i", "_", "k", "e", "y">>)
  \/ Contains(low, <<"a", "p", "i", "-", "k", "e", "y">>)

\* coerceValue: timeout and retries become Number(value), which must be
\* finite (Number.isFinite: a number, not NaN); any other key keeps the string
coerceValue(key, value) ==
  IF key \in {KeyChars("timeout"), KeyChars("retries")}
    THEN IF ToNumber(value).t # "num"
           THEN Threw(CliError("Invalid numeric value for ", key, 2))
           ELSE Ok(ToNumber(value))
    ELSE Ok(Str(value))

saveStoredConfig_Unchecked(config) == Ok(SchemaData(config))

\* saveStoredConfig: the config is written only when the schema accepts it
saveStoredConfig(config) ==
  IF ~SchemaOk(config)
    THEN Threw(CliError("Cannot save config: ", <<>>, DefaultExitCode))
    ELSE Ok(SchemaData(config))

\* one entry of updates, with the channel its value was read from
Update(key, value, from) == [key |-> KeyOf(key), value |-> value, from |-> from]

\* the entries as an object, and the channel of each of its keys
AsConfig(updates) ==
  [k \in {updates[i].key : i \in 1..Len(updates)} |->
     (CHOOSE u \in {updates[i] : i \in 1..Len(updates)} : u.key = k).value]

AsOrigin(updates) ==
  [k \in {updates[i].key : i \in 1..Len(updates)} |->
     (CHOOSE u \in {updates[i] : i \in 1..Len(updates)} : u.key = k).from]

\* cfg set, key=value form: for (const [key, rawValue] of Object.entries(assignments))
RECURSIVE CoerceAll(_, _)
CoerceAll(assignments, acc) ==
  IF assignments = <<>> THEN Ok(acc)
  ELSE LET key == Head(assignments).key
           rawValue == Head(assignments).value
       IN
       IF key \notin allowedKeys
         THEN Threw(CliError("Unsupported key: ", key, 2))
       ELSE IF isSecretKey(key)
         THEN Threw(CliError("Secret key must be set via stdin: ", key, 2))
       ELSE IF coerceValue(key, rawValue).kind = "error"
         THEN coerceValue(key, rawValue)
       ELSE CoerceAll(Tail(assignments),
                      Append(acc, Update(key, coerceValue(key, rawValue).value, "argv")))

\* cfg set up to the merge: the updates of `todoist cfg set <key> <value>`
\* or of `todoist cfg set key=value ...`
SetUpdates(values, stdin) ==
  IF Len(values) = 2 /\ ~Contains(values[1], <<"=">>)
    THEN LET key == values[1]
             rawValue == values[2]
         IN
         IF key = <<>>
           THEN Threw(CliError("Expected: todoist cfg set <key> <value>", <<>>, 2))
         ELSE IF key \notin allowedKeys
           THEN Threw(CliError("Unsupported key: ", key, 2))
         ELSE IF isSecretKey(key)
           THEN IF rawValue # <<"-">>
                  THEN Threw(CliError("Refusing secret in argv for key ", key, 2))
                  ELSE Ok(<<Update(key, Str(Trim(stdin)), "stdin")>>)
         ELSE IF coerceValue(key, rawValue).kind = "error"
           THEN coerceValue(key, rawValue)
         ELSE Ok(<<Update(key, coerceValue(key, rawValue).value, "argv")>>)
    ELSE IF parseSetAssignments(values).kind = "error"
      THEN parseSetAssignments(values)
    ELSE CoerceAll(parseSetAssignments(values).value, <<>>)

\* what is on stdin for cfg import: nothing but blanks, text that is not
\* JSON, or a JSON object given by its entries in order
BlankPayload == [t |-> "blank"]
NotJson == [t |-> "text"]

\* cfg import: for (const [key, value] of Object.entries(parsed))
RECURSIVE ImportAll(_, _)
ImportAll(entries, acc) ==
  IF entries = <<>> THEN Ok(acc)
  ELSE LET key == Head(entries).key
           value == Head(entries).value
       IN
       IF key \notin allowedKeys
         THEN Threw(CliError("Unsupported key in import: ", key, 2))
       ELSE IF isSecretKey(key)
         THEN Threw(CliError("Refusing secret import for key ", key, 2))
       ELSE IF value = JNull
         THEN ImportAll(Tail(entries), acc)
       ELSE IF value.t = "num"
         THEN ImportAll(Tail(entries), Append(acc, Update(key, value, "payload")))
       ELSE IF coerceValue(key, value.s).kind = "error"
         THEN coerceValue(key, value.s)
       ELSE ImportAll(Tail(entries),
                      Append(acc, Update(key, coerceValue(key, value.s).value, "payload")))

\* cfg import up to saveStoredConfig
ImportNext(payload) ==
  IF payload = BlankPayload
    THEN Threw(CliError("No JSON input provided on stdin", <<>>, 2))
  ELSE IF payload = NotJson
    THEN Threw(PlainError("SyntaxError", <<>>))
  ELSE ImportAll(payload.entries, <<>>)

\* toCliError: a CliError is kept, any other Error becomes a CliError with
\* its message and exit code 1
toCliError_AlwaysOne(value) ==
  CliError(value.tag, value.detail, 1)

toCliError(value) ==
  IF value.cls = "CliError" THEN value
  ELSE IF value.cls # "none" THEN CliError("", value.detail, 1)
  ELSE CliError("Unknown error", <<>>, 1)

----------------------------------------------------------------------------
(* main *)

\* the catch block of main: the rejection of the command's promise is turned
\* into a CliError and its exit code becomes the exit code of the process
Main ==
  /\ pc = "done"
  /\ result.kind = "error"
  /\ processExitCode = 0
  /\ processExitCode' = toCliError(result.error).exitCode
  /\ UNCHANGED clientVars
  /\ UNCHANGED <<pvalue, presult, cliVars>>

----------------------------------------------------------------------------
(* The client: one operation per run *)

NoEnv ==
  [v \in {"TODOIST_ENDPOINT", "TODOIST_API_TOKEN", "TODOIST_TIMEOUT", "TODOIST_RETRIES"}
     |-> <<>>]

NoArgv == [command |-> "none", values |-> <<>>, flags |-> <<>>, stdin |-> <<>>]

\* a client on which no operation has been called
ClientIdle ==
  /\ op = "none"
  /\ args = NoArgs
  /\ pc = "idle"
  /\ stage = "none"
  /\ req = None
  /\ attempt = 0
  /\ lastError = NoError
  /\ nfetch = 0
  /\ mixedOutcomes = FALSE
  /\ lastOutcome = None
  /\ ret = None
  /\ thrown = NoError
  /\ task = None
  /\ commands = <<>>
  /\ uuidNext = 0
  /\ result = Pending
  /\ callLog = <<>>
  /\ fetchLog = <<>>
  /\ tokenChecks = 0
  /\ server = [tasks |-> {ExistingTaskId}, next |-> 1]

\* no command has run: nothing in the environment, no config file
CliIdle ==
  /\ processExitCode = 0
  /\ env = NoEnv
  /\ stored = NoFile
  /\ argv = NoArgv
  /\ effective = None
  /\ checks = <<>>
  /\ origin = <<>>

Init ==
  /\ cfg \in Configs
  /\ ClientIdle
  /\ pvalue = <<>>
  /\ presult = Pending
  /\ CliIdle

Next ==
  \/ ListTasks
  \/ AddTask
  \/ AddTaskRemindersCall
  \/ CloseTask
  \/ DeleteTask
  \/ CheckReachability
  \/ Attempt
  \/ ListTasksReturned
  \/ AddTaskCreated
  \/ SyncReturned
  \/ VoidReturned
  \/ Propagate
  \/ Main

Spec == Init /\ [][Next]_vars

----------------------------------------------------------------------------
(* The client running updateTask *)

NextUpdate ==
  \/ UpdateTask
  \/ Attempt
  \/ UpdateTaskPosted
  \/ SyncReturned
  \/ Propagate
  \/ Main

SpecUpdate == Init /\ [][NextUpdate]_vars

----------------------------------------------------------------------------
(* The parser on its own *)

ParseReminderValue ==
  /\ presult = Pending
  /\ presult' = parseReminderValue(pvalue)
  /\ UNCHANGED pvalue
  /\ UNCHANGED clientVars
  /\ UNCHANGED <<processExitCode, cliVars>>

\* a client that is not used
ClientUnused ==
  /\ cfg = [endpoint |-> DefaultEndpoint, apiToken |-> "tok",
            timeout |-> DefaultTimeout, retries |-> MaxRetries]
  /\ ClientIdle

InitParse ==
  /\ ClientUnused
  /\ pvalue \in ParseInputs
  /\ presult = Pending
  /\ CliIdle

NextParse == ParseReminderValue

SpecParse == InitParse /\ [][NextParse]_vars

----------------------------------------------------------------------------
(* parseSetAssignments on its own *)

ParseSetAssignments ==
  /\ presult = Pending
  /\ presult' = parseSetAssignments(pvalue)
  /\ UNCHANGED pvalue
  /\ UNCHANGED clientVars
  /\ UNCHANGED <<processExitCode, cliVars>>

InitKv ==
  /\ ClientUnused
  /\ pvalue \in StringsUpTo(StringsUpTo({"a", "="}, MaxLen), MaxInputs)
  /\ presult = Pending
  /\ CliIdle

SpecKv == InitKv /\ [][ParseSetAssignments]_vars

----------------------------------------------------------------------------
(* Commands that build a client: task list/find/add/done/update/delete, doctor *)

\* the values --endpoint, --timeout and --retries are given with
Flags ==
  {Merge(Merge(e, t), r) :
     e \in {<<>>} \cup {("endpoint" :> v) : v \in {<<"f", ":", "f">>, <<"x">>}},
     t \in {<<>>} \cup {("timeout" :> v) : v \in {<<"8">>, <<"a">>}},
     r \in {<<>>} \cup {("retries" :> v) : v \in {<<"1">>, <<"-", "1">>}}}

\* const stored = await loadStoredConfig(); resolveEffectiveConfig(stored)
LoadAndResolve ==
  LET loaded == loadStoredConfig(stored) IN
  IF loaded.kind = "error" THEN loaded
  ELSE resolveEffectiveConfig(loaded.value, env)

\* a task command up to new TodoistClient(cfg); a failure to load or resolve
\* the config rejects the command and main sets the exit code.  What the
\* client then does is the client's own specification.
TaskCommand ==
  \E name \in {"list", "find", "add", "done", "update", "delete"}, flags \in Flags :
    /\ argv = NoArgv
    /\ argv' = [NoArgv EXCEPT !.command = name, !.flags = flags]
    /\ IF LoadAndResolve.kind = "error"
         THEN /\ processExitCode' = toCliError(LoadAndResolve.error).exitCode
              /\ UNCHANGED effective
         ELSE /\ effective' = applyOverrides(LoadAndResolve.value, flags)
              /\ UNCHANGED processExitCode
    /\ UNCHANGED <<env, stored, checks, origin, pvalue, presult>>
    /\ UNCHANGED clientVars

Check(name, status) == [name |-> name, status |-> status]

Overall_WarnFirst(list) ==
  IF \E i \in 1..Len(list) : list[i].status = "WARN" THEN "warn"
  ELSE IF \E i \in 1..Len(list) : list[i].status = "FAIL" THEN "fail"
  ELSE "ok"

\* hasFail ? "fail" : checks.some((item) => item.status === "WARN") ? "warn" : "ok"
Overall(list) ==
  IF \E i \in 1..Len(list) : list[i].status = "FAIL" THEN "fail"
  ELSE IF \E i \in 1..Len(list) : list[i].status = "WARN" THEN "warn"
  ELSE "ok"

\* doctor: five checks; the client is built from the resolved config and
\* checkReachability is called only when it has a token; what is reported is
\* { status: overall, checks }
DoctorCommand ==
  \E flags \in Flags, bun \in BOOLEAN, access \in BOOLEAN, reachable \in BOOLEAN,
     resolved \in {LoadAndResolve} :
    LET hasToken == resolved.kind = "ok" /\ "apiToken" \in DOMAIN resolved.value
        list == <<Check("bun_runtime", IF bun THEN "OK" ELSE "FAIL"),
                  Check("config_directory_access", IF access THEN "OK" ELSE "FAIL"),
                  Check("config_validation",
                        IF resolved.kind = "ok" THEN "OK" ELSE "FAIL"),
                  Check("auth_token", IF hasToken THEN "OK" ELSE "FAIL"),
                  Check("endpoint_reachability",
                        IF ~hasToken THEN "WARN"
                        ELSE IF reachable THEN "OK" ELSE "FAIL")>>
        hasFail == \E i \in 1..Len(list) : list[i].status = "FAIL"
    IN
    /\ argv = NoArgv
    /\ hasToken \/ reachable
    /\ argv' = [NoArgv EXCEPT !.command = "doctor", !.flags = flags]
    /\ effective' = IF hasToken THEN resolved.value ELSE None
    /\ checks' = [status |-> Overall(list), checks |-> list]
    /\ processExitCode' = IF hasFail THEN 1 ELSE 0
    /\ UNCHANGED <<env, stored, origin, pvalue, presult>>
    /\ UNCHANGED clientVars

InitCommand ==
  /\ ClientUnused
  /\ pvalue = <<>>
  /\ presult = Pending
  /\ processExitCode = 0
  /\ env \in {[TODOIST_ENDPOINT |-> e, TODOIST_API_TOKEN |-> k, TODOIST_TIMEOUT |-> t,
                TODOIST_RETRIES |-> r] :
                 e \in {<<>>, <<"e", ":", "e">>}, k \in {<<>>, <<"k">>},
                 t \in {<<>>, <<"7">>, <<"a">>}, r \in {<<>>, <<"0">>}}
  \* config files: none, a full and a partial valid one, and one edited by
  \* hand into something the schema rejects
  /\ stored \in {NoFile,
                 File([endpoint |-> Str(<<"s", ":", "s">>), apiToken |-> Str(<<"s">>),
                       timeout |-> IntNum(9), retries |-> IntNum(1)]),
                 File([retries |-> IntNum(3)]),
                 File([retries |-> IntNum(11)])}
  /\ argv = NoArgv
  /\ effective = None
  /\ checks = <<>>
  /\ origin = <<>>

NextCommand ==
  \/ TaskCommand
  \/ DoctorCommand

SpecCommand == InitCommand /\ [][NextCommand]_vars

----------------------------------------------------------------------------
(* The config command: cfg set, cfg unset, cfg import *)

\* what cfg set is called with: a key and a value, or key=value assignments
SetValues ==
  LET keys == {KeyChars("apiToken"), KeyChars("timeout"), KeyChars("endpoint"),
               <<"t", "o", "k", "e", "n">>, <<"x">>}
      rawValues == {<<"-">>, <<"5">>, <<"a">>, <<"s", ":", "s">>}
      assignments ==
        {KeyChars("apiToken") \o <<"=", "v">>, KeyChars("apiToken") \o <<"=">>,
         KeyChars("timeout") \o <<"=", "5">>, KeyChars("retries") \o <<"=", "a">>,
         <<"x", "=", "1">>, <<"x">>}
  IN
  {<<k, v>> : k \in keys, v \in rawValues}
    \cup (StringsUpTo(assignments, MaxInputs) \ {<<>>})

\* the JSON objects cfg import is given: up to MaxInputs entries, no key twice
Payloads ==
  LET entries ==
        {[key |-> k, value |-> v] :
           k \in {KeyChars("apiToken"), KeyChars("timeout"), KeyChars("retries"), <<"x">>},
           v \in {Str(<<"k">>), IntNum(5), Num(FALSE, 1, <<"5">>), JNull}}
  IN
  {BlankPayload, NotJson}
    \cup {[t |-> "object", entries |-> e] :
            e \in {f \in StringsUpTo(entries, MaxInputs) :
                     \A i, j \in 1..Len(f) : f[i].key = f[j].key => i = j}}

\* the end of a command: the config is saved, or the error reaches main and
\* sets the exit code and the file is left as it was
Finish(saved, from) ==
  IF saved.kind = "error"
    THEN /\ processExitCode' = toCliError(saved.error).exitCode
         /\ UNCHANGED <<stored, origin>>
    ELSE /\ stored' = File(saved.value)
         /\ origin' = [k \in DOMAIN saved.value |-> from[k]]
         /\ UNCHANGED processExitCode

\* todoist cfg set <values...>; loaded, updates and saved are the values of the
\* constants of the same names, each computed once
CfgSet ==
  /\ argv = NoArgv
  /\ \E values \in SetValues, stdin \in {<<>>, <<"k", " ">>} :
       \E loaded \in {loadStoredConfig(stored)} :
       \E updates \in {IF loaded.kind = "error" THEN loaded
                        ELSE SetUpdates(values, stdin)} :
       \E saved \in {IF updates.kind = "error" THEN updates
                      ELSE saveStoredConfig(Merge(loaded.value,
                                                  AsConfig(updates.value)))} :
       /\ argv' = [NoArgv EXCEPT !.command = "set", !.values = values, !.stdin = stdin]
       /\ Finish(saved, Merge(origin, AsOrigin(updates.value)))
       /\ UNCHANGED <<env, effective, checks, pvalue, presult>>
       /\ UNCHANGED clientVars

\* todoist cfg unset <keys...>
CfgUnset ==
  /\ argv = NoArgv
  /\ \E keys \in StringsUpTo({KeyChars("apiToken"), KeyChars("timeout"), <<"x">>},
                              MaxInputs) \ {<<>>} :
       \E loaded \in {loadStoredConfig(stored)} :
       \E saved \in
            {IF loaded.kind = "error" THEN loaded
             ELSE IF \E i \in 1..Len(keys) : keys[i] \notin allowedKeys
               THEN Threw(CliError("Unsupported key: ", <<>>, 2))
             ELSE saveStoredConfig(
                    [k \in DOMAIN loaded.value \ {KeyOf(keys[i]) : i \in 1..Len(keys)} |->
                       loaded.value[k]])} :
       /\ argv' = [NoArgv EXCEPT !.command = "unset", !.values = keys]
       /\ Finish(saved, origin)
       /\ UNCHANGED <<env, effective, checks, pvalue, presult>>
       /\ UNCHANGED clientVars

\* todoist cfg import --json
CfgImport ==
  /\ argv = NoArgv
  /\ \E payload \in Payloads :
       \E next \in {ImportNext(payload)} :
       \E saved \in {IF next.kind = "error" THEN next
                      ELSE saveStoredConfig(AsConfig(next.value))} :
       /\ argv' = [NoArgv EXCEPT !.command = "import", !.stdin = payload]
       /\ Finish(saved, AsOrigin(next.value))
       /\ UNCHANGED <<env, effective, checks, pvalue, presult>>
       /\ UNCHANGED clientVars

\* the process ends; the next invocation is a new process
ProcessExit ==
  /\ argv # NoArgv
  /\ argv' = NoArgv
  /\ processExitCode' = 0
  /\ UNCHANGED <<env, stored, effective, checks, origin, pvalue, presult>>
  /\ UNCHANGED clientVars

InitCfg ==
  /\ ClientUnused
  /\ pvalue = <<>>
  /\ presult = Pending
  /\ processExitCode = 0
  /\ env = NoEnv
  \* no config file, a valid one, or one edited by hand into something the
  \* schema rejects
  /\ stored \in {NoFile,
                 File([apiToken |-> Str(<<"s">>), retries |-> IntNum(1)]),
                 File([retries |-> IntNum(11)])}
  /\ argv = NoArgv
  /\ effective = None
  /\ checks = <<>>
  /\ origin = IF stored = NoFile THEN <<>> ELSE [k \in DOMAIN stored.config |-> "file"]

NextCfg ==
  \/ CfgSet
  \/ CfgUnset
  \/ CfgImport
  \/ ProcessExit

SpecCfg == InitCfg /\ [][NextCfg]_vars

----------------------------------------------------------------------------
(* Properties of the retry loop *)

\* C1: with a token set and retries = r, a transport call whose attempts
\* fail (network error, timeout, non-2xx) goes on while fewer than r + 1
\* attempts were made, surfaces a failure after exactly r + 1 attempts, and
\* no call ever makes more than r + 1 attempts.
RetryCountInvariant ==
  LET failed(o) == o.kind \in {"network", "timeout"}
                     \/ (o.kind = "response" /\ (o.status < 200 \/ o.status > 299))
  IN
  /\ nfetch <= cfg.retries + 1
  /\ (cfg.apiToken # "" /\ nfetch > 0 /\ failed(lastOutcome))
       => IF nfetch < cfg.retries + 1
            THEN pc = "fetch"
            ELSE /\ nfetch = cfg.retries + 1
                 /\ pc \in {"throw", "done"}
                 /\ thrown.cls = "CliError"
                 /\ (pc = "done" => result.kind = "error")

RetryCountWitness ==
  /\ cfg.retries = MaxRetries
  /\ pc = "done"
  /\ result.kind = "error"
  /\ nfetch = MaxRetries + 1
  /\ mixedOutcomes
  /\ lastOutcome.status = 500

\* C2 as stated: every client operation called with the token unset fails
\* with the authentication-missing error, exit code 1, and no fetch is made.
MissingTokenAlwaysAuthError ==
  (cfg.apiToken = "" /\ op # "none")
    => /\ fetchLog = <<>>
       /\ tokenChecks <= Len(callLog)
       /\ pc = "done" => result = Threw(AuthMissingError)

\* C2 amended: with the token unset no fetch is ever made and the token is
\* checked at most once per transport call; the operation fails with the
\* authentication-missing error, except that addTaskReminders given a value
\* that does not parse fails before that with the invalid-reminder error, and
\* an endpoint that is not a URL fails before that with the TypeError of the
\* URL constructor.
MissingTokenShortCircuit ==
  (cfg.apiToken = "" /\ op # "none")
    => /\ fetchLog = <<>>
       /\ pc # "fetch"
       /\ tokenChecks <= Len(callLog)
       /\ pc = "done" =>
            LET bad == {i \in 1..Len(args.reminders) :
                          parseReminderValue(args.reminders[i]).kind = "error"}
            IN
            result =
              IF op = "addTaskReminders" /\ bad # {}
                THEN Threw(CliError("Invalid reminder minutes value: ",
                                    args.reminders[Min(bad)], 2))
              ELSE IF cfg.endpoint # DefaultEndpoint
                THEN Threw(PlainError("TypeError", <<"Invalid URL">>))
              ELSE Threw(AuthMissingError)

MissingTokenWitness ==
  /\ cfg.apiToken = ""
  /\ op = "addTask"
  /\ pc = "done"
  /\ tokenChecks = 1
  /\ Len(callLog) = 1
  /\ result.error.exitCode = 1
  /\ result.error = AuthMissingError

\* C3: the error a transport call surfaces after its last attempt is that of
\* the last attempt alone: status and body text (status phrase when the body
\* is empty) of the last non-2xx response, or the message of the last
\* network error.
LastFailureWins ==
  LET last == lastOutcome IN
  (pc \in {"throw", "done"} /\ nfetch > 0 /\ last.json # BadJson
     /\ (last.kind # "response" \/ last.status < 200 \/ last.status > 299))
    => /\ thrown.cls = "CliError"
       /\ thrown.exitCode = 1
       /\ IF last.kind = "response"
            THEN /\ thrown.tag = "Todoist API "
                 /\ thrown.detail =
                      <<ToString(last.status),
                        IF last.text = "" THEN last.statusText ELSE last.text>>
            ELSE /\ thrown.tag = ""
                 /\ thrown.detail = <<last.text>>
       /\ pc = "done" => result = Threw(thrown)

LastFailureWitness ==
  /\ pc = "done"
  /\ nfetch >= 2
  /\ mixedOutcomes
  /\ lastOutcome.status = 404
  /\ result.error.detail = <<"404", "Not Found">>

\* C4: every failed attempt is treated alike, whatever its class (network
\* error, timeout, 4xx or 5xx): the call goes on to the next attempt exactly
\* when fewer than retries + 1 attempts have been made and otherwise fails,
\* and only a 2xx answer makes it return.
ErrorClassIgnored ==
  [][nfetch' = nfetch + 1 =>
       LET last == lastOutcome'
           failed == last.kind \in {"network", "timeout"}
                       \/ (last.kind = "response"
                             /\ (last.status < 200 \/ last.status > 299))
       IN
       /\ failed => pc' = IF nfetch' < cfg.retries + 1 THEN "fetch" ELSE "throw"
       /\ pc' = "returned" => (last.kind = "response" /\ last.status \in 200..299)
    ]_vars

ErrorClassWitness ==
  /\ pc = "returned"
  /\ nfetch = MaxRetries + 1
  /\ mixedOutcomes
  /\ lastOutcome.status = 204

----------------------------------------------------------------------------
(* Properties of addTask and addTaskReminders *)

\* C5: addTask with a non-empty reminders list returns the created task only
\* after exactly two transport calls, the creation POST and then one sync POST
\* carrying one command per reminder with item_id the created task's id, and
\* it does return it when the values parse, the server created the task and
\* reported "ok" for every command; with reminders absent or empty there is
\* exactly one transport call and the sync endpoint is never called.
AddTaskTwoCalls ==
  (op = "addTask" /\ pc = "done") =>
    LET n == Len(args.reminders)
        twoCalls ==
          /\ Len(callLog) = 2
          /\ callLog[1].method = "POST" /\ callLog[1].path = "/api/v1/tasks"
          /\ callLog[2].method = "POST" /\ callLog[2].path = "/api/v1/sync"
          /\ Len(callLog[2].body.commands) = n
          /\ \A i \in 1..n : callLog[2].body.commands[i].args.item_id = task.id
        cooperative ==
          /\ task.t = "task"
          /\ stage = "sync"
          /\ ret.t = "object"
          /\ ret.has_sync_status
          /\ \A i \in 1..Len(commands) :
               /\ commands[i].uuid \in DOMAIN ret.sync_status
               /\ ret.sync_status[commands[i].uuid] = "ok"
    IN
    IF args.hasReminders /\ n > 0
      THEN /\ result.kind = "ok" => (twoCalls /\ result.value = task)
           /\ cooperative => (twoCalls /\ result = Ok(task))
      ELSE /\ Len(callLog) = 1
           /\ callLog[1].path = "/api/v1/tasks"
           /\ \A i \in 1..Len(fetchLog) : fetchLog[i].url.path # "/api/v1/sync"

AddTaskTwoCallsWitness ==
  /\ op = "addTask"
  /\ pc = "done"
  /\ Len(args.reminders) >= 2
  /\ result = Ok([t |-> "task", id |-> "42"])
  /\ Len(callLog) = 2
  /\ Len(fetchLog) >= 2

\* C6: once the sync call has returned, addTaskReminders fails exactly when
\* some submitted command's uuid does not map to "ok" in sync_status (a
\* missing entry or a missing sync_status is not "ok"), and the error cites
\* the status of the first such command in submission order.
ReminderStatusCheck ==
  LET returned == /\ stage = "sync" /\ nfetch > 0
                  /\ lastOutcome.kind = "response"
                  /\ lastOutcome.status \in 200..299
                  /\ lastOutcome.json # BadJson
      status(i) ==
        IF ret.t = "object" /\ ret.has_sync_status
             /\ commands[i].uuid \in DOMAIN ret.sync_status
          THEN ret.sync_status[commands[i].uuid]
          ELSE "unknown error"
      failing == {i \in 1..Len(commands) : status(i) # "ok"}
  IN
  (returned /\ pc = "done" /\ commands # <<>>) =>
    IF failing = {} THEN result.kind = "ok"
    ELSE result = Threw(CliError("Failed to add reminder: ",
                                 <<status(Min(failing))>>, 1))

\* C7: when the creation POST of addTask has returned and the reminder
\* follow-up then fails, addTask fails with that failure and sends nothing
\* more: every request sent is the creation POST or the sync POST, and the
\* created task is still on the server.
NoCompensation ==
  (op = "addTask" /\ task # None /\ pc = "done" /\ result.kind = "error") =>
    LET bad == {i \in 1..Len(args.reminders) :
                  parseReminderValue(args.reminders[i]).kind = "error"}
    IN
    /\ result.error = thrown
    /\ \A i \in 1..Len(fetchLog) :
         /\ fetchLog[i].method = "POST"
         /\ fetchLog[i].url.path \in {"/api/v1/tasks", "/api/v1/sync"}
    /\ task.t = "task" =>
         /\ task.id \in server.tasks
         /\ bad # {} => (Len(callLog) = 1 /\ result.error.exitCode = 2)
         /\ bad = {} => (Len(callLog) = 2 /\ stage = "sync")

NoCompensationWitness ==
  /\ op = "addTask"
  /\ pc = "done"
  /\ task = [t |-> "task", id |-> "42"]
  /\ result.error.tag = "Failed to add reminder: "
  /\ "42" \in server.tasks

\* C8: addTaskReminders parses every value before any network activity: when
\* some value fails to parse, whatever its position, the call fails with the
\* invalid-reminder error of the first such value, no command is submitted
\* and the sync endpoint sees no request.
ParseBeforeNetwork ==
  LET bad == {i \in 1..Len(args.reminders) :
                LET v == args.reminders[i] IN
                /\ Len(v) > 0
                /\ \A j \in 1..Len(v) : v[j] \in DigitChars
                /\ \A j \in 1..Len(v) : v[j] = "0"}
      reached == op = "addTaskReminders" \/ (op = "addTask" /\ task # None /\ task.t = "task")
  IN
  (bad # {} /\ reached) =>
    /\ commands = <<>>
    /\ \A i \in 1..Len(callLog) : callLog[i].path # "/api/v1/sync"
    /\ \A i \in 1..Len(fetchLog) : fetchLog[i].url.path # "/api/v1/sync"
    /\ op = "addTaskReminders" => fetchLog = <<>>
    /\ pc \in {"throw", "done"}
    /\ thrown = CliError("Invalid reminder minutes value: ", args.reminders[Min(bad)], 2)
    /\ pc = "done" => result = Threw(thrown)

ParseBeforeNetworkWitness ==
  /\ op = "addTaskReminders"
  /\ pc = "done"
  /\ args.reminders = <<<<"3", "0">>, <<"0">>>>
  /\ result.error.exitCode = 2
  /\ fetchLog = <<>>

\* C21: in addTask with a non-empty reminders list the values are parsed
\* only after the creation POST has succeeded: when a value is invalid,
\* nothing is parsed or rejected before the POST has returned, and once it has
\* returned the created task the call fails with the invalid-reminder usage
\* error (exit code 2) while the task is on the server; the sync endpoint is
\* never called.
ParseAfterCreation ==
  LET bad == {i \in 1..Len(args.reminders) :
                parseReminderValue(args.reminders[i]).kind = "error"}
  IN
  (op = "addTask" /\ args.hasReminders /\ bad # {}) =>
    /\ commands = <<>>
    /\ \A i \in 1..Len(callLog) : callLog[i].path # "/api/v1/sync"
    /\ \A i \in 1..Len(fetchLog) : fetchLog[i].url.path # "/api/v1/sync"
    /\ task = None =>
         /\ thrown.exitCode # 2
         /\ processExitCode # 2
    /\ (task # None /\ task.t = "task") =>
         /\ Len(callLog) = 1
         /\ callLog[1].method = "POST" /\ callLog[1].path = "/api/v1/tasks"
         /\ task.id \in server.tasks
         /\ pc \in {"throw", "done"}
         /\ thrown = CliError("Invalid reminder minutes value: ",
                              args.reminders[Min(bad)], 2)
         /\ pc = "done" => result = Threw(thrown)
         /\ processExitCode \in {0, 2}

ParseAfterCreationWitness ==
  /\ op = "addTask"
  /\ pc = "done"
  /\ args.reminders = <<<<"3", "0">>, <<"0">>>>
  /\ task = [t |-> "task", id |-> "42"]
  /\ "42" \in server.tasks
  /\ nfetch > 1
  /\ result.error.exitCode = 2
  /\ processExitCode = 2

----------------------------------------------------------------------------
(* Properties of listTasks and checkReachability *)

\* C11: whenever the transport call of listTasks succeeds, listTasks returns
\* a list: the response when it is a bare array, its results when it is an
\* object with results, and the empty list otherwise (an object without
\* results, JSON null, the empty result of a 204); a bare array and a
\* {results: [...]} response with the same tasks give the same list.
ListTasksNormalizes ==
  LET answered == /\ op = "listTasks" /\ nfetch > 0
                  /\ HandleResponse(lastOutcome).kind = "ok"
      response == HandleResponse(lastOutcome).value
      expected == IF response.t = "array" THEN response.items
                  ELSE IF response.t = "object" /\ response.has_results
                    THEN response.results
                  ELSE <<>>
  IN
  answered => /\ pc # "throw"
              /\ pc = "done" => result = Ok(expected)

\* C12: listTasks and checkReachability change nothing on the server: every
\* fetch attempt they make, retries included, is a GET without a body, on
\* /api/v1/tasks for listTasks and on /api/v1/projects for checkReachability,
\* and the server's tasks are what they were.
ReadOnlyOperations ==
  (op \in {"listTasks", "checkReachability"}) =>
    /\ \A i \in 1..Len(fetchLog) :
         /\ fetchLog[i].method = "GET"
         /\ fetchLog[i].body = None
         /\ fetchLog[i].url.path =
              IF op = "listTasks" THEN "/api/v1/tasks" ELSE "/api/v1/projects"
    /\ server = [tasks |-> {ExistingTaskId}, next |-> 1]

ReadOnlyWitness ==
  /\ op = "listTasks"
  /\ pc = "done"
  /\ Len(fetchLog) = MaxRetries + 1
  /\ result.kind = "ok"
  /\ result.value = <<TaskJson(ExistingTaskId)>>

----------------------------------------------------------------------------
(* Properties of updateTask *)

----------------------------------------------------------------------------
(* Properties of the effective config *)

\* C14: in every command that builds a client (task list, find, add, done,
\* update, delete and doctor), each of endpoint, timeout and retries that the
\* client gets is the flag's value when the flag is given, else the
\* environment variable's when it is set, else the stored value, else the
\* default; apiToken is the environment variable's value when set, else the
\* stored one.
ConfigPrecedence ==
  (argv.command # "none" /\ effective # None) =>
    LET file == IF stored = NoFile THEN <<>> ELSE stored.config
        read(text, number) == IF number THEN ToNumber(text) ELSE Str(text)
        expected(k, v, number) ==
          IF k \in DOMAIN argv.flags THEN read(argv.flags[k], number)
          ELSE IF env[v] # <<>> THEN read(env[v], number)
          ELSE IF k \in DOMAIN file THEN file[k]
          ELSE DEFAULTS[k]
    IN
    /\ effective.endpoint = expected("endpoint", "TODOIST_ENDPOINT", FALSE)
    /\ effective.timeout = expected("timeout", "TODOIST_TIMEOUT", TRUE)
    /\ effective.retries = expected("retries", "TODOIST_RETRIES", TRUE)
    /\ IF env.TODOIST_API_TOKEN # <<>>
         THEN /\ "apiToken" \in DOMAIN effective
              /\ effective.apiToken = Str(env.TODOIST_API_TOKEN)
       ELSE IF "apiToken" \in DOMAIN file
         THEN /\ "apiToken" \in DOMAIN effective
              /\ effective.apiToken = file.apiToken
       ELSE "apiToken" \notin DOMAIN effective

\* C15: every config a command builds a client with has a non-empty
\* endpoint, a timeout that is a positive integer and retries that is an
\* integer >= 0, whatever the stored file, the environment and the flags.
EffectiveConfigValid ==
  (argv.command # "none" /\ effective # None) =>
    /\ effective.endpoint.t = "str" /\ effective.endpoint.s # <<>>
    /\ IsInteger(effective.timeout) /\ IsPositive(effective.timeout)
    /\ IsInteger(effective.retries) /\ AtLeast(effective.retries, 0)

----------------------------------------------------------------------------
(* Properties of doctor *)

\* C23: doctor sets the exit code to 1 exactly when some check is FAIL, and
\* then reports the overall status "fail"; endpoint_reachability is WARN
\* (skipped: no client is built, checkReachability is not called) exactly
\* when auth_token is FAIL, so the overall status is "ok" or "fail" and never
\* "warn", and checkReachability is called only with a token.
DoctorVerdict ==
  argv.command = "doctor" =>
    LET list == checks.checks
        statusOf(n) ==
          (CHOOSE c \in {list[i] : i \in 1..Len(list)} : c.name = n).status
        anyFail == \E i \in 1..Len(list) : list[i].status = "FAIL"
        called == effective # None
    IN
    /\ processExitCode = (IF anyFail THEN 1 ELSE 0)
    /\ anyFail => checks.status = "fail"
    /\ checks.status \in {"ok", "fail"}
    /\ statusOf("endpoint_reachability") = "WARN" <=> statusOf("auth_token") = "FAIL"
    /\ statusOf("endpoint_reachability") = "WARN" <=> ~called
    /\ called => ("apiToken" \in DOMAIN effective /\ effective.apiToken.s # <<>>)

\* a run without a token: reachability is skipped and the verdict is "fail"
DoctorWitness ==
  /\ argv.command = "doctor"
  /\ checks.status = "fail"
  /\ checks.checks[1].status = "OK"
  /\ checks.checks[2].status = "OK"
  /\ checks.checks[3].status = "OK"
  /\ checks.checks[4] = [name |-> "auth_token", status |-> "FAIL"]
  /\ checks.checks[5] = [name |-> "endpoint_reachability", status |-> "WARN"]
  /\ effective = None
  /\ processExitCode = 1

----------------------------------------------------------------------------
(* Properties of the exit code *)

\* C16: a failure of a client operation carries the exit code of its kind,
\* 2 for an invalid reminder value and 1 for a missing token, a transport
\* failure and a failed reminder command, and once main has handled the
\* failure the exit code of the process is the carried one, or 1 when the
\* failure is not a CliError; without a failure the exit code stays unset.
ExitCodeOfKind ==
  IF pc = "done" /\ result.kind = "error"
    THEN LET e == result.error
             carried == IF e.cls = "CliError" THEN e.exitCode ELSE 1
         IN
         /\ e.cls = "CliError" =>
              /\ e.tag \in {"Invalid reminder minutes value: ", AuthMissingError.tag,
                            "Todoist API ", "", "Failed to add reminder: "}
              /\ e.exitCode = IF e.tag = "Invalid reminder minutes value: " THEN 2 ELSE 1
         /\ processExitCode \in {0, carried}
    ELSE processExitCode = 0

ExitCodeWitness ==
  /\ op = "addTask"
  /\ pc = "done"
  /\ task = TaskJson("42")
  /\ result.error.tag = "Invalid reminder minutes value: "
  /\ processExitCode = 2

----------------------------------------------------------------------------
(* Properties of the handling of 2xx responses *)

\* C19: a 2xx response other than 204 whose body does not parse as JSON makes
\* the transport call fail with a generic failure of exit code 1, which
\* reaches the caller; a 204 response returns the empty result with nothing
\* parsed.
ParseFailureFails ==
  [][nfetch' = nfetch + 1 =>
       LET last == lastOutcome' IN
       /\ (ResponseOk(last) /\ last.status # 204 /\ last.json = BadJson) =>
            /\ pc' = "throw"
            /\ thrown' = CliError("", <<"JSON Parse error">>, 1)
       /\ (ResponseOk(last) /\ last.status = 204) =>
            (pc' = "returned" /\ ret' = JUndefined)
    ]_vars

\* C20: within one transport call no attempt is sent once the server has
\* answered an attempt with a 2xx status: an attempt after the first follows
\* one that ended in a network error, a timeout or a non-2xx response, so a
\* request the server accepted is not sent again.
NoAttemptAfterSuccess ==
  [][(nfetch' = nfetch + 1 /\ nfetch > 0) => ~ResponseOk(lastOutcome)]_vars

----------------------------------------------------------------------------
(* Properties of the config command *)

\* the invocations the claim names: cfg set apiToken <v> with v other than
\* "-", cfg set apiToken=<v>, and cfg import of an object with an apiToken key
SecretInArgv ==
  \/ /\ argv.command = "set"
     /\ Len(argv.values) = 2
     /\ argv.values[1] = KeyChars("apiToken")
     /\ argv.values[2] # <<"-">>
  \/ /\ argv.command = "set"
     /\ Len(argv.values) = 1
     /\ Len(argv.values[1]) > Len(KeyChars("apiToken"))
     /\ SubSeq(argv.values[1], 1, Len(KeyChars("apiToken")) + 1)
          = KeyChars("apiToken") \o <<"=">>

SecretInPayload ==
  /\ argv.command = "import"
  /\ argv.stdin \notin {BlankPayload, NotJson}
  /\ \E i \in 1..Len(argv.stdin.entries) :
       argv.stdin.entries[i].key = KeyChars("apiToken")

\* no stored secret was read from the command line or from an import payload
SecretsFromStdin ==
  \A k \in DOMAIN origin :
    isSecretKey(KeyChars(k)) => origin[k] \notin {"argv", "payload"}

\* C17 as stated: over any sequence of cfg set, cfg unset and cfg import, no
\* value of a secret key is taken from an argument or an import payload, and
\* cfg set apiToken <v> (v other than "-"), cfg set apiToken=<v> and an import
\* payload with apiToken are rejected with exit code 2 and write nothing.
SecretViaStdinOnly ==
  [][argv = NoArgv =>
       /\ SecretsFromStdin'
       /\ (SecretInArgv' \/ SecretInPayload') =>
            (processExitCode' = 2 /\ stored' = stored)]_vars

\* C17, amended: cfg set loads the stored file before it looks at its
\* arguments, so the exit code is 2 when the file is absent or valid and 1
\* when it does not load; the import does not read the file.  Nothing is
\* written in any of these cases and no secret comes from an argument or a
\* payload.
SecretViaStdinOnlyLoaded ==
  [][argv = NoArgv =>
       /\ SecretsFromStdin'
       /\ SecretInArgv' =>
            /\ processExitCode' =
                 (IF loadStoredConfig(stored).kind = "ok" THEN 2 ELSE DefaultExitCode)
            /\ stored' = stored
       /\ SecretInPayload' => (processExitCode' = 2 /\ stored' = stored)]_vars

SecretViaStdinWitness ==
  /\ argv.command = "set"
  /\ argv.values = <<KeyChars("apiToken"), <<"5">>>>
  /\ stored # NoFile
  /\ loadStoredConfig(stored).kind = "ok"
  /\ "apiToken" \in DOMAIN stored.config
  /\ origin.apiToken = "stdin"
  /\ processExitCode = 2

\* C22: whatever cfg set, cfg unset and cfg import are called with, a file
\* the CLI writes satisfies the config schema (only the keys endpoint,
\* apiToken, timeout and retries; endpoint a URL, apiToken not empty, timeout
\* a positive integer, retries an integer in 0..10), and an invocation that
\* fails leaves the stored file as it was.
StoredFileValid ==
  [][(argv = NoArgv /\ argv' # NoArgv) =>
       LET written == stored'.config
           integer(v) == v.t = "num" /\ v.frac = <<>> /\ ~v.neg
       IN
       /\ processExitCode' # 0 => stored' = stored
       /\ stored' # stored =>
            /\ stored' # NoFile
            /\ DOMAIN written \subseteq {"endpoint", "apiToken", "timeout", "retries"}
            /\ "endpoint" \in DOMAIN written =>
                 (written.endpoint.t = "str" /\ IsUrlString(written.endpoint.s))
            /\ "apiToken" \in DOMAIN written =>
                 (written.apiToken.t = "str" /\ written.apiToken.s # <<>>)
            /\ "timeout" \in DOMAIN written =>
                 (integer(written.timeout) /\ written.timeout.whole >= 1)
            /\ "retries" \in DOMAIN written =>
                 (integer(written.retries) /\ written.retries.whole \in 0..10)
    ]_vars

\* an import with a retries value the schema rejects fails and leaves the
\* file an earlier cfg set has written
StoredFileWitness ==
  /\ argv.command = "import"
  /\ argv.stdin = [t |-> "object",
                   entries |-> <<[key |-> KeyChars("retries"),
                                  value |-> Num(FALSE, 1, <<"5">>)]>>]
  /\ processExitCode = 1
  /\ stored # NoFile
  /\ "timeout" \in DOMAIN stored.config
  /\ stored.config.timeout = IntNum(5)
  /\ origin.timeout = "argv"

----------------------------------------------------------------------------
(* Properties of parseSetAssignments *)

\* C18: when every input has a "=", a non-empty text before its first "="
\* and a non-empty text after it, parseSetAssignments returns the record
\* that has, for each such key, the text after the first "=" of the last
\* input with that key, and no other key; when some input has no "=", an
\* empty key or an empty value, it fails with exit code 2 and returns no
\* record.
AssignmentsParsed ==
  LET first(input) ==
        CHOOSE i \in 1..Len(input) :
          input[i] = "=" /\ \A j \in 1..(i - 1) : input[j] # "="
      wellFormed(input) ==
        /\ \E i \in 1..Len(input) : input[i] = "="
        /\ first(input) > 1
        /\ first(input) < Len(input)
      key(input) == SubSeq(input, 1, first(input) - 1)
      value(input) == SubSeq(input, first(input) + 1, Len(input))
      last(k) == CHOOSE i \in 1..Len(pvalue) :
                   key(pvalue[i]) = k /\ \A j \in (i + 1)..Len(pvalue) : key(pvalue[j]) # k
  IN
  (presult # Pending) =>
    IF \A i \in 1..Len(pvalue) : wellFormed(pvalue[i])
      THEN /\ presult.kind = "ok"
           /\ {presult.value[i].key : i \in 1..Len(presult.value)}
                = {key(pvalue[i]) : i \in 1..Len(pvalue)}
           /\ \A i, j \in 1..Len(presult.value) :
                presult.value[i].key = presult.value[j].key => i = j
           /\ \A i \in 1..Len(presult.value) :
                presult.value[i].value = value(pvalue[last(presult.value[i].key)])
      ELSE /\ presult.kind = "error"
           /\ presult.value = None
           /\ presult.error.cls = "CliError"
           /\ presult.error.exitCode = 2

AssignmentsWitness ==
  /\ pvalue = <<<<"a", "=", "a">>, <<"a", "=", "=">>>>
  /\ presult = Ok(<<[key |-> <<"a">>, value |-> <<"=">>]>>)

----------------------------------------------------------------------------
(* Properties of parseReminderValue *)

\* C9 as stated: every string of one or more digits with a value > 0 parses
\* to a relative reminder with that value as minute_offset; a digits-only
\* string of value 0 fails with the invalid-reminder error, exit code 2.
DigitsParseRelative ==
  (presult # Pending /\ IsDigits(pvalue)) =>
    IF \E i \in 1..Len(pvalue) : pvalue[i] # "0"
      THEN /\ presult.kind = "ok"
           /\ presult.value =
                [item_id |-> "", type |-> "relative",
                 minute_offset |-> DecimalValue(StripZeros(pvalue))]
      ELSE presult = Threw(CliError("Invalid reminder minutes value: ", pvalue, 2))

\* C9 amended: a string of one or more digits that Number converts to a
\* finite value > 0 parses to a relative reminder with that value as
\* minute_offset; a digits-only string whose value is 0, or which is too long
\* for Number to give a finite value, fails with the invalid-reminder error,
\* exit code 2.
FiniteDigitsParseRelative ==
  (presult # Pending /\ IsDigits(pvalue)) =>
    LET significant == StripZeros(pvalue) IN
    IF significant # <<>> /\ Len(significant) <= MaxFiniteDigits
      THEN presult = Ok([item_id |-> "", type |-> "relative",
                         minute_offset |-> DecimalValue(significant)])
      ELSE presult = Threw(CliError("Invalid reminder minutes value: ", pvalue, 2))

FiniteDigitsWitness ==
  /\ pvalue = <<"0", "3", "5">>
  /\ presult.kind = "ok"
  /\ presult.value.minute_offset = 35

\* C10: every string that is not made of one or more digits only parses,
\* without failing, to an absolute reminder whose due date is the string
\* unchanged.
NonDigitsParseAbsolute ==
  (presult # Pending
     /\ (pvalue = <<>> \/ \E i \in 1..Len(pvalue) : pvalue[i] \notin DigitChars))
    => presult = Ok([item_id |-> "", type |-> "absolute", due |-> [date |-> pvalue]])

NonDigitsWitness ==
  /\ pvalue = <<" ", "3", "0">>
  /\ presult.kind = "ok"
  /\ presult.value.type = "absolute"

====
